---- MODULE Spec2Model ----
(***************************************************************************)
(* A model of the storefront's three state machines:                       *)
(*   - the AuthContext provider (credential / session store),              *)
(*   - the login screen and its attempt limiter,                           *)
(*   - the PaymentModal checkout flow as mounted by the product screen.    *)
(* JavaScript strings are sequences of one-character strings, so that      *)
(* trim, toLowerCase, split and the regular expressions are computed.      *)
(* A value that may be null is a sequence of length 0 (null) or 1.         *)
(***************************************************************************)
EXTENDS Integers, Sequences, FiniteSets, TLC

VARIABLES
    storage,            \* AsyncStorage: key -> <<>> (absent) or <<text>>
    user,               \* AuthProvider state: <<>> (null) or <<User>>
    isLoading,          \* AuthProvider state
    calls,              \* store operations in flight (promises not yet settled)
    result,             \* what the last step returned to its caller
    attemptCount,       \* Login screen state
    isBlocked,          \* Login screen state
    blockTimeRemaining, \* Login screen state (ms)
    failStreak          \* history: failed store logins since the last success or unlock

authVars == <<storage, user, isLoading, calls, result,
              attemptCount, isBlocked, blockTimeRemaining, failStreak>>

VARIABLES
    product,            \* ProductDetail state: <<>> (null) or <<Product>>
    showPaymentModal,   \* ProductDetail state
    currentStep,        \* PaymentModal state; while no PaymentModal is mounted
    quantity,           \*   these five hold the values a mount starts with
    paymentMethod,
    isProcessing,
    formData,
    instance,           \* how many PaymentModal instances were mounted so far
    timers,             \* pending setTimeout callbacks of handlePayment
    now,                \* the clock (ms since the product screen was mounted)
    renderedAt,         \* the clock when the mounted PaymentModal last rendered
    path,               \* history: the steps the mounted instance went through
    processingAt,       \* history: the clock when handlePayment ran
    successAt,          \* history: the clock when the step became "success"
    typed               \* history: the last text a card field's onChangeText got

modalVars == <<currentStep, quantity, paymentMethod, isProcessing, formData>>
historyVars == <<path, processingAt, successAt, typed>>
checkoutVars == <<product, showPaymentModal, modalVars, instance, timers, now, renderedAt,
                  historyVars>>

VARIABLES
    selectedCategorySlug, \* Home state
    products,             \* Home state
    showProducts,         \* Home state
    isLoadingProducts,    \* Home state `isLoading'
    fetches,              \* category selections whose timer or fetch is pending
    applyQueue,           \* fetch results whose 300 ms timer is pending, in order
    selections,           \* history: the categories chosen, in order
    applied               \* history: the categories whose results were applied, in order

catalogVars == <<selectedCategorySlug, products, showProducts, isLoadingProducts,
                 fetches, applyQueue, selections, applied>>

VARIABLES
    journey,            \* history: what was typed into the signup screen, and
                        \* how far the sign-up, log-out, log-in sequence got
    sinceLock,          \* history: clock time (ms) passed since the limiter was locked
    lateTicks           \* history: how many interval callbacks came late

probeVars == <<journey, sinceLock, lateTicks>>

\* what the store and the login screen leave alone, and what the checkout does
besideAuth == <<checkoutVars, catalogVars, probeVars>>
besideCheckout == <<authVars, catalogVars, probeVars>>

besideCatalog == <<authVars, checkoutVars, probeVars>>

vars == <<authVars, checkoutVars, catalogVars, probeVars>>

----------------------------------------------------------------------------
(* Bounds *)

MaxCalls == 1
MaxOverlap == 2
MaxLate == 1
MaxSelections == 3
MaxMounts == 2
MaxAdvances == 4

----------------------------------------------------------------------------
(* Characters and string functions *)

Lower == {"a","b","c","d","e","f","g","h","i","j","k","l","m",
          "n","o","p","q","r","s","t","u","v","w","x","y","z"}
Upper == {"A","B","C","D","E","F","G","H","I","J","K","L","M",
          "N","O","P","Q","R","S","T","U","V","W","X","Y","Z"}
Digit == {"0","1","2","3","4","5","6","7","8","9"}
Space == {" "}
AlNum == Lower \cup Upper \cup Digit

UpperSeq == <<"A","B","C","D","E","F","G","H","I","J","K","L","M",
              "N","O","P","Q","R","S","T","U","V","W","X","Y","Z">>
LowerSeq == <<"a","b","c","d","e","f","g","h","i","j","k","l","m",
              "n","o","p","q","r","s","t","u","v","w","x","y","z">>

ToLowerChar(c) ==
    IF c \in Upper
    THEN LowerSeq[CHOOSE i \in 1..26 : UpperSeq[i] = c]
    ELSE c

ToLowerCase(s) == [i \in 1..Len(s) |-> ToLowerChar(s[i])]

RECURSIVE TrimStart(_)
TrimStart(s) ==
    IF s # <<>> /\ Head(s) \in Space THEN TrimStart(Tail(s)) ELSE s

RECURSIVE TrimEnd(_)
TrimEnd(s) ==
    IF s # <<>> /\ s[Len(s)] \in Space THEN TrimEnd(SubSeq(s, 1, Len(s) - 1)) ELSE s

Trim(s) == TrimEnd(TrimStart(s))

Positions(s, c) == {i \in 1..Len(s) : s[i] = c}

Min(S) == CHOOSE x \in S : \A y \in S : x <= y

\* s.split(c)[0]
SplitHead(s, c) ==
    IF Positions(s, c) = {} THEN s ELSE SubSeq(s, 1, Min(Positions(s, c)) - 1)

RECURSIVE RemoveChars(_, _)
RemoveChars(s, cs) ==
    IF s = <<>> THEN <<>>
    ELSE IF Head(s) \in cs THEN RemoveChars(Tail(s), cs)
    ELSE <<Head(s)>> \o RemoveChars(Tail(s), cs)

----------------------------------------------------------------------------
(* JSON: an object is written as the sequence of its <<key, value>> pairs   *)

Stringify(obj, keys) == [i \in 1..Len(keys) |-> <<keys[i], obj[keys[i]]>>]

\* parsed[key]; undefined is the empty sequence
JsonGet(text, key) ==
    IF \E i \in 1..Len(text) : text[i][1] = key
    THEN text[CHOOSE i \in 1..Len(text) : text[i][1] = key][2]
    ELSE <<>>

\* a text JSON.parse throws on, written as a pair list led by an unmatched brace
NotJson == << <<"{", <<>>>> >>

\* JSON.parse(text) returns
JsonParses(text) == \A i \in 1..Len(text) : text[i][1] # "{"

CredentialKeys == <<"email", "password", "name">>
UserKeys == <<"id", "email", "name">>

ParseCredentials(text) ==
    [email |-> JsonGet(text, "email"),
     password |-> JsonGet(text, "password"),
     name |-> JsonGet(text, "name")]

ParseUser(text) ==
    [id |-> JsonGet(text, "id"),
     email |-> JsonGet(text, "email"),
     name |-> JsonGet(text, "name")]

----------------------------------------------------------------------------
(* Inputs *)

EmailLower == <<"a","b","@","c","d",".","e","f">>
EmailMixed == <<"A","b","@","c","d",".","e","f">>
EmailShort == <<"a","b">>

PasswordP == <<"p","1">>
PasswordQ == <<"q","1">>

NameAnn == <<"A","n","n">>

\* arguments the store's callers pass
StoreEmails == {EmailLower, EmailMixed}
StorePasswords == {PasswordP, PasswordQ}
StoreNames == {NameAnn, <<>>}

\* texts typed into the login screen
TypedEmails == {EmailLower, EmailMixed, EmailShort}
TypedPasswords == {PasswordP, PasswordQ, <<>>}

Keys == {"credentials", "user"}

\* result of a step that returns nothing to a caller
Quiet(op) ==
    [op |-> op, caller |-> "none", email |-> <<>>, password |-> <<>>,
     name |-> <<>>, ret |-> FALSE, io |-> TRUE,
     stored |-> <<>>, mirror |-> <<>>, userWas |-> <<>>, countWas |-> 0,
     blockedWas |-> FALSE]

\* result of a store operation that settles: its arguments, the boolean it
\* resolves with, whether its storage accesses succeeded, and the state it found
Settled(c, ret, io) ==
    [op |-> c.op, caller |-> c.caller, email |-> c.email, password |-> c.password,
     name |-> c.name, ret |-> ret, io |-> io,
     stored |-> storage["credentials"], mirror |-> storage["user"], userWas |-> user,
     countWas |-> attemptCount, blockedWas |-> isBlocked]

----------------------------------------------------------------------------
(* AuthProvider: the credential / session store *)

FreeId == Min({i \in 1..(Cardinality(calls) + 1) : \A c \in calls : c.id # i})

Call(op, caller, email, password, name, pc, captured) ==
    [id |-> FreeId, op |-> op, caller |-> caller, email |-> email,
     password |-> password, name |-> name, pc |-> pc, captured |-> captured]

LoadUserCall ==
    [id |-> 1, op |-> "loadUser", caller |-> "provider", email |-> <<>>,
     password |-> <<>>, name |-> <<>>, pc |-> "read", captured |-> 0]

limiterVars == <<attemptCount, isBlocked, blockTimeRemaining, failStreak>>

\* what loadUser's try block does not complete on
LoadUserFails(io, userData) ==
    ~io \/ (userData # <<>> /\ userData[1] # <<>> /\ ~JsonParses(userData[1]))

\* mutant: setIsLoading(false) follows the try block instead of being in `finally'
LoadUserSettle_noFinally(c, io) ==
    /\ c \in calls /\ c.op = "loadUser"
    /\ LET userData == storage["user"]
       IN  /\ user' = IF ~LoadUserFails(io, userData) /\ userData # <<>> /\ userData[1] # <<>>
                      THEN <<ParseUser(userData[1])>>
                      ELSE user
           /\ isLoading' = IF LoadUserFails(io, userData) THEN isLoading ELSE FALSE
    /\ calls' = calls \ {c}
    /\ result' = Settled(c, FALSE, io)
    /\ UNCHANGED <<storage, limiterVars>>

\* loadUser: getItem("user") settles, then the rest of the function runs
LoadUserSettle(c, io) ==
    /\ c \in calls /\ c.op = "loadUser"
    /\ LET userData == storage["user"]
       IN  user' = IF /\ io
                      /\ userData # <<>> /\ userData[1] # <<>>
                      /\ JsonParses(userData[1])
                   THEN <<ParseUser(userData[1])>>
                   ELSE user
    /\ isLoading' = FALSE
    /\ calls' = calls \ {c}
    /\ result' = Settled(c, FALSE, io)
    /\ UNCHANGED <<storage, limiterVars>>

\* mutant: the password is not compared
CredentialsMatch_emailOnly(parsed, email, password) ==
    parsed.email = email

\* parsed.email === email && parsed.password === password
CredentialsMatch(parsed, email, password) ==
    parsed.email = email /\ parsed.password = password

\* the User built by login
LoginUser(parsed, email) ==
    [id |-> <<"1">>,
     email |-> email,
     name |-> IF parsed.name # <<>> THEN parsed.name ELSE SplitHead(email, "@")]

\* what login resolves with, given what getItem("credentials") gave
LoginReturns(io, storedData, email, password) ==
    /\ io
    /\ storedData # <<>> /\ storedData[1] # <<>>
    /\ JsonParses(storedData[1])
    /\ CredentialsMatch(ParseCredentials(storedData[1]), email, password)

\* login, up to its first await: setIsLoading(true) and the 500 ms timer
LoginInvoke(caller, email, password, captured) ==
    /\ isLoading' = TRUE
    /\ calls' = calls \cup {Call("login", caller, email, password, <<>>, "read", captured)}
    /\ UNCHANGED <<storage, user>>

\* the User of the session after login settles
LoginSetsUser(c, io) ==
    IF LoginReturns(io, storage["credentials"], c.email, c.password)
    THEN <<LoginUser(ParseCredentials(storage["credentials"][1]), c.email)>>
    ELSE user

\* login settles: the 500 ms timer and getItem("credentials") are over, the rest
\* of the function runs, and so does the caller awaiting it (see LoginSettle)
LoginFinish(c, io) ==
    /\ c \in calls /\ c.op = "login"
    /\ user' = LoginSetsUser(c, io)
    /\ isLoading' = FALSE
    /\ calls' = calls \ {c}
    /\ result' = Settled(c, LoginReturns(io, storage["credentials"], c.email, c.password), io)
    /\ UNCHANGED storage

\* signup, up to its first await
SignupInvoke(email, password, name) ==
    /\ isLoading' = TRUE
    /\ calls' = calls \cup {Call("signup", "direct", email, password, name, "check", 0)}
    /\ result' = Quiet("invoke")
    /\ UNCHANGED <<storage, user, limiterVars>>

\* "Check if user already exists": the key signup reads
ExistingKey == "user"

\* JSON.parse(existing) throws, which signup's catch turns into `return false'
ExistingThrows(existing) ==
    existing # <<>> /\ existing[1] # <<>> /\ ~JsonParses(existing[1])

\* signup's duplicate test on what getItem gave
EmailAlreadyUsed(existing, email) ==
    /\ existing # <<>> /\ existing[1] # <<>>
    /\ JsonParses(existing[1])
    /\ ParseUser(existing[1]).email = email

\* getItem(ExistingKey) settles; signup returns false or goes on to setItem
SignupCheck(c, io) ==
    /\ c \in calls /\ c.op = "signup" /\ c.pc = "check"
    /\ IF \/ ~io
          \/ ExistingThrows(storage[ExistingKey])
          \/ EmailAlreadyUsed(storage[ExistingKey], c.email)
       THEN /\ isLoading' = FALSE
            /\ calls' = calls \ {c}
            /\ result' = Settled(c, FALSE, io)
       ELSE /\ isLoading' = isLoading
            /\ calls' = (calls \ {c}) \cup {[c EXCEPT !.pc = "write"]}
            /\ result' = Quiet("step")
    /\ UNCHANGED <<storage, user, limiterVars>>

\* mutant: the object stored as credentials is used as the User
SignupUser_withPassword(c) ==
    [id |-> <<"1">>, email |-> c.email, name |-> c.name, password |-> c.password]

\* the User built by signup
SignupUser(c) == [id |-> <<"1">>, email |-> c.email, name |-> c.name]

\* what signup leaves under the keys of AsyncStorage when setItem succeeds
SignupWrites(c) ==
    [storage EXCEPT !["credentials"] =
        <<Stringify([email |-> c.email, password |-> c.password, name |-> c.name],
                    CredentialKeys)>>]

\* setItem("credentials") settles (ioWrite), then the read-back getItem
\* (ioRead), then setUser and return true
SignupWrite(c, ioWrite, ioRead) ==
    /\ c \in calls /\ c.op = "signup" /\ c.pc = "write"
    /\ storage' = IF ioWrite THEN SignupWrites(c) ELSE storage
    /\ user' = IF ioWrite /\ ioRead THEN <<SignupUser(c)>> ELSE user
    /\ isLoading' = FALSE
    /\ calls' = calls \ {c}
    /\ result' = Settled(c, ioWrite /\ ioRead, ioWrite /\ ioRead)
    /\ UNCHANGED limiterVars

\* logout, up to its await: setUser(null), removeItem("user") issued
LogoutInvoke ==
    /\ user' = <<>>
    /\ calls' = calls \cup {Call("logout", "direct", <<>>, <<>>, <<>>, "remove", 0)}
    /\ result' = Quiet("loggingOut")
    /\ UNCHANGED <<storage, isLoading, limiterVars>>

\* mutant: the key is left in the storage
LogoutSettle_keepsKey(c, io) ==
    /\ c \in calls /\ c.op = "logout"
    /\ calls' = calls \ {c}
    /\ result' = Settled(c, FALSE, io)
    /\ UNCHANGED <<storage, user, isLoading, limiterVars>>

\* removeItem("user") settles; an error is caught and logged
LogoutSettle(c, io) ==
    /\ c \in calls /\ c.op = "logout"
    /\ storage' = IF io THEN [storage EXCEPT !["user"] = <<>>] ELSE storage
    /\ calls' = calls \ {c}
    /\ result' = Settled(c, FALSE, io)
    /\ UNCHANGED <<user, isLoading, limiterVars>>

----------------------------------------------------------------------------
(* Login screen *)

MAX_ATTEMPTS == 5
BLOCK_DURATION == 15 * 60 * 1000
TICK_MS == 1000
MAX_EMAIL == 254
MAX_LOCAL == 64
MAX_DOMAIN == 253
MAX_LABEL == 63
MAX_PASSWORD == 128

Control == {"\t", "\n", "\r"}

Range(s) == {s[i] : i \in 1..Len(s)}

\* X Y* X with X alphanumeric and Y in `inner'
Bracketed(s, inner) ==
    /\ Len(s) >= 2
    /\ s[1] \in AlNum /\ s[Len(s)] \in AlNum
    /\ Range(s) \subseteq AlNum \cup inner

\* /^[a-zA-Z0-9]([a-zA-Z0-9._-])*[a-zA-Z0-9]@[a-zA-Z0-9]([a-zA-Z0-9.-])*[a-zA-Z0-9]\.[a-zA-Z]{2,}$/
EmailRegexTest(s) ==
    /\ Cardinality(Positions(s, "@")) = 1
    /\ LET at == Min(Positions(s, "@"))
           dom == SubSeq(s, at + 1, Len(s))
       IN  /\ Bracketed(SubSeq(s, 1, at - 1), {".", "_", "-"})
           /\ \E k \in Positions(dom, ".") :
                /\ Bracketed(SubSeq(dom, 1, k - 1), {".", "-"})
                /\ Len(dom) - k >= 2
                /\ Range(SubSeq(dom, k + 1, Len(dom))) \subseteq Lower \cup Upper

\* /[._-]{2,}/
ConsecutiveSpecials(s) ==
    \E i \in 1..(Len(s) - 1) : s[i] \in {".", "_", "-"} /\ s[i + 1] \in {".", "_", "-"}

\* the labels of domain.split('.') have a length in 1..63
LabelsOk(dom) ==
    LET dots == Positions(dom, ".") \cup {0, Len(dom) + 1}
    IN  \A i \in dots : \A j \in dots :
            (i < j /\ \A k \in dots : ~(i < k /\ k < j))
                => (j - i - 1 >= 1 /\ j - i - 1 <= MAX_LABEL)

DomainSuggestions ==
    { <<"g","m","i","a","l",".","c","o","m">>,
      <<"g","m","a","i",".","c","o","m">>,
      <<"y","a","h","o","o","o",".","c","o","m">>,
      <<"h","o","t","m","i","a","l",".","c","o","m">>,
      <<"o","u","t","l","o","k",".","c","o","m">> }

\* validateEmail(email) returns null
ValidateEmail(email) ==
    LET t == ToLowerCase(Trim(email))
        at == Min(Positions(t, "@"))
        localPart == SubSeq(t, 1, at - 1)
        dom == SubSeq(t, at + 1, Len(t))
    IN  /\ t # <<>>
        /\ Len(t) <= MAX_EMAIL
        /\ EmailRegexTest(t)
        /\ Len(localPart) <= MAX_LOCAL /\ Len(localPart) >= 1
        /\ ~ConsecutiveSpecials(localPart)
        /\ localPart[1] # "." /\ localPart[Len(localPart)] # "."
        /\ Len(dom) <= MAX_DOMAIN
        /\ dom[1] \notin {"-", "."} /\ dom[Len(dom)] \notin {"-", "."}
        /\ LabelsOk(dom)
        /\ dom \notin DomainSuggestions

\* validatePassword(password) returns null
ValidatePassword(password) ==
    /\ password # <<>>
    /\ Len(password) <= MAX_PASSWORD
    /\ " " \notin Range(password)
    /\ Range(password) \cap Control = {}

\* validateForm()
ValidateForm(email, password) == ValidateEmail(email) /\ ValidatePassword(password)

\* handleEmailChange: what the email field holds after `text' is typed
CleanEmail(text) == ToLowerCase(Trim(text))

SanitizeEmail(email) == ToLowerCase(Trim(email))
SanitizePassword(password) == RemoveChars(password, {"<", ">"})

\* mutant: the countdown ends without setAttemptCount(0)
Tick_keepsCount ==
    /\ isBlocked /\ blockTimeRemaining > 0
    /\ IF blockTimeRemaining <= TICK_MS
       THEN /\ isBlocked' = FALSE
            /\ blockTimeRemaining' = 0
            /\ UNCHANGED <<attemptCount, failStreak>>
       ELSE /\ blockTimeRemaining' = blockTimeRemaining - TICK_MS
            /\ UNCHANGED <<isBlocked, attemptCount, failStreak>>
    /\ result' = Quiet("tick")
    /\ UNCHANGED <<storage, user, isLoading, calls>>

\* mutant: the countdown reaches 0 without setIsBlocked(false)
Tick_staysBlocked ==
    /\ isBlocked /\ blockTimeRemaining > 0
    /\ IF blockTimeRemaining <= TICK_MS
       THEN /\ attemptCount' = 0
            /\ blockTimeRemaining' = 0
            /\ failStreak' = 0
            /\ UNCHANGED isBlocked
       ELSE /\ blockTimeRemaining' = blockTimeRemaining - TICK_MS
            /\ UNCHANGED <<isBlocked, attemptCount, failStreak>>
    /\ result' = Quiet("tick")
    /\ UNCHANGED <<storage, user, isLoading, calls>>

\* the interval callback of the countdown effect
Tick ==
    /\ isBlocked /\ blockTimeRemaining > 0
    /\ IF blockTimeRemaining <= TICK_MS
       THEN /\ isBlocked' = FALSE
            /\ attemptCount' = 0
            /\ blockTimeRemaining' = 0
            /\ failStreak' = 0
       ELSE /\ blockTimeRemaining' = blockTimeRemaining - TICK_MS
            /\ UNCHANGED <<isBlocked, attemptCount, failStreak>>
    /\ result' = Quiet("tick")
    /\ UNCHANGED <<storage, user, isLoading, calls>>

\* mutant: a successful login leaves the attempt count as it is
HandleLoginResume_noReset(captured, success) ==
    IF success
    THEN /\ failStreak' = 0
         /\ UNCHANGED <<attemptCount, isBlocked, blockTimeRemaining>>
    ELSE /\ attemptCount' = captured + 1
         /\ failStreak' = failStreak + 1
         /\ IF captured + 1 >= MAX_ATTEMPTS
            THEN /\ isBlocked' = TRUE
                 /\ blockTimeRemaining' = BLOCK_DURATION
            ELSE UNCHANGED <<isBlocked, blockTimeRemaining>>

\* mutant: the lock is set when the count exceeds MAX_ATTEMPTS
HandleLoginResume_late(captured, success) ==
    IF success
    THEN /\ attemptCount' = 0
         /\ failStreak' = 0
         /\ UNCHANGED <<isBlocked, blockTimeRemaining>>
    ELSE /\ attemptCount' = captured + 1
         /\ failStreak' = failStreak + 1
         /\ IF captured + 1 > MAX_ATTEMPTS
            THEN /\ isBlocked' = TRUE
                 /\ blockTimeRemaining' = BLOCK_DURATION
            ELSE UNCHANGED <<isBlocked, blockTimeRemaining>>

\* handleLogin after `await login(...)': `captured' is the attemptCount of the
\* render whose handleLogin was invoked
HandleLoginResume(captured, success) ==
    IF success
    THEN /\ attemptCount' = 0
         /\ failStreak' = 0
         /\ UNCHANGED <<isBlocked, blockTimeRemaining>>
    ELSE /\ attemptCount' = captured + 1
         /\ failStreak' = failStreak + 1
         /\ IF captured + 1 >= MAX_ATTEMPTS
            THEN /\ isBlocked' = TRUE
                 /\ blockTimeRemaining' = BLOCK_DURATION
            ELSE UNCHANGED <<isBlocked, blockTimeRemaining>>

\* a login settles and the code awaiting it runs
LoginSettle(c, io) ==
    /\ LoginFinish(c, io)
    /\ IF c.caller = "screen"
       THEN HandleLoginResume(c.captured,
                LoginReturns(io, storage["credentials"], c.email, c.password))
       ELSE UNCHANGED limiterVars

\* a step of the login screen that calls nothing
Rejected(why, email, password) ==
    /\ result' = Settled([op |-> why, caller |-> "screen", email |-> email,
                          password |-> password, name |-> <<>>], FALSE, TRUE)
    /\ UNCHANGED <<storage, user, isLoading, calls, limiterVars>>

\* mutant: a submission the form rejects is counted as a failed attempt
SubmitLogin_countsInvalid(email, password) ==
    IF ~ValidateForm(email, password)
    THEN /\ result' = Settled([op |-> "invalid", caller |-> "screen", email |-> email,
                               password |-> password, name |-> <<>>], FALSE, TRUE)
         /\ attemptCount' = IF attemptCount < MAX_ATTEMPTS THEN attemptCount + 1
                            ELSE attemptCount
         /\ UNCHANGED <<storage, user, isLoading, calls, isBlocked,
                        blockTimeRemaining, failStreak>>
    ELSE /\ LoginInvoke("screen", SanitizeEmail(email), SanitizePassword(password),
                        attemptCount)
         /\ result' = Settled([op |-> "submit", caller |-> "screen", email |-> email,
                               password |-> password, name |-> <<>>], TRUE, TRUE)
         /\ UNCHANGED limiterVars

\* handleLogin past the isBlocked test, up to `await login(...)'
SubmitLogin(email, password) ==
    IF ~ValidateForm(email, password)
    THEN Rejected("invalid", email, password)
    ELSE /\ LoginInvoke("screen", SanitizeEmail(email), SanitizePassword(password),
                        attemptCount)
         /\ result' = Settled([op |-> "submit", caller |-> "screen", email |-> email,
                               password |-> password, name |-> <<>>], TRUE, TRUE)
         /\ UNCHANGED limiterVars

\* handleLogin, with the email and password fields holding these values
HandleLogin(email, password) ==
    IF isBlocked
    THEN Rejected("locked", email, password)
    ELSE SubmitLogin(email, password)

\* the Sign In button's `disabled'
SignInDisabled == isLoading \/ isBlocked

\* mutant: the button stays enabled while a login is in flight
PressSignIn_ignoresLoading(emailText, passwordText) ==
    IF isBlocked
    THEN Rejected("disabled", CleanEmail(emailText), passwordText)
    ELSE HandleLogin(CleanEmail(emailText), passwordText)

\* mutant: the lock is not consulted when a login is submitted
PressSignIn_ignoresLock(emailText, passwordText) ==
    IF isLoading
    THEN Rejected("disabled", CleanEmail(emailText), passwordText)
    ELSE SubmitLogin(CleanEmail(emailText), passwordText)

\* a press of the Sign In button after the two texts were typed
PressSignIn(emailText, passwordText) ==
    IF SignInDisabled
    THEN Rejected("disabled", CleanEmail(emailText), passwordText)
    ELSE HandleLogin(CleanEmail(emailText), passwordText)

----------------------------------------------------------------------------
(* Signup screen *)

NAME_MIN == 2
NAME_MAX == 50
PASSWORD_MIN == 8

\* [\s\-']
NameSeparators == Space \cup Control \cup {"-", "'"}

\* isValidFullName(name)
isValidFullName(name) ==
    LET trimmedName == Trim(name)
    IN  /\ Range(trimmedName) \subseteq Lower \cup Upper \cup NameSeparators
        /\ Len(trimmedName) >= NAME_MIN /\ Len(trimmedName) <= NAME_MAX
        /\ Range(trimmedName) \cap (Lower \cup Upper) # {}
        /\ ~\E i \in 1..(Len(trimmedName) - 1) :
                trimmedName[i] \in NameSeparators /\ trimmedName[i + 1] \in NameSeparators

disposableDomains ==
    { <<"1","0","m","i","n","u","t","e","m","a","i","l",".","c","o","m">>,
      <<"t","e","m","p","m","a","i","l",".","o","r","g">>,
      <<"g","u","e","r","r","i","l","l","a","m","a","i","l",".","c","o","m">> }

\* isValidEmail(email)
isValidEmail(email) ==
    LET trimmedEmail == ToLowerCase(Trim(email))
    IN  /\ EmailRegexTest(trimmedEmail)
        /\ Len(trimmedEmail) <= MAX_EMAIL
        /\ SubSeq(trimmedEmail, Min(Positions(trimmedEmail, "@")) + 1, Len(trimmedEmail))
                \notin disposableDomains

commonPasswords ==
    { <<"p","a","s","s","w","o","r","d">>,
      <<"1","2","3","4","5","6">>,
      <<"1","2","3","4","5","6","7","8","9">>,
      <<"q","w","e","r","t","y">>,
      <<"a","b","c","1","2","3">>,
      <<"p","a","s","s","w","o","r","d","1","2","3">>,
      <<"a","d","m","i","n">>,
      <<"l","e","t","m","e","i","n">>,
      <<"w","e","l","c","o","m","e">>,
      <<"1","2","3","4","5","6","7","8">>,
      <<"m","o","n","k","e","y">>,
      <<"1","2","3","4","5","6","7","8","9","0">> }

isCommonPassword(password) == ToLowerCase(password) \in commonPasswords

\* the character class of the `special' requirement; its backquote is left
\* out (no text typed here holds one)
SpecialChars ==
    {"!", "@", "#", "$", "%", "^", "&", "*", "(", ")", ",", ".", "?", "\"", ":",
     "{", "}", "|", "<", ">", "_", "+", "=", "[", "]", "\\", ";", "'", "~", "-"}

\* every requirement of getPasswordRequirements(password) is met, which is
\* checkPasswordStrength(password) === ""
checkPasswordStrength(password) ==
    /\ Len(password) >= PASSWORD_MIN
    /\ Len(password) <= MAX_PASSWORD
    /\ Range(password) \cap Upper # {}
    /\ Range(password) \cap Lower # {}
    /\ Range(password) \cap Digit # {}
    /\ Range(password) \cap SpecialChars # {}
    /\ Range(password) \cap (Space \cup Control) = {}
    /\ ~isCommonPassword(password)

\* the signup screen's validateForm() returns true
SignupValidateForm(name, email, password, confirmPassword) ==
    /\ Trim(name) # <<>> /\ isValidFullName(name)
    /\ Trim(email) # <<>> /\ isValidEmail(email)
    /\ password # <<>> /\ checkPasswordStrength(password)
    /\ confirmPassword # <<>> /\ password = confirmPassword

\* handleSignup with the four fields holding these values, up to `await signup'
handleSignup(name, email, password, confirmPassword) ==
    IF ~SignupValidateForm(name, email, password, confirmPassword)
    THEN Rejected("invalidSignup", email, password)
    ELSE SignupInvoke(Trim(email), Trim(password), Trim(name))

\* texts typed into the signup screen
EmailTypo == <<"a","b","@","g","m","i","a","l",".","c","o","m">>
PasswordBang == <<"A","a","1","!","a","a","a","a">>
PasswordAngle == <<"A","a","1","<","a","a","a","a">>
NameLone == <<"A">>

SignupNames == {NameAnn, NameLone}
SignupEmails == {EmailLower, EmailMixed, EmailShort, EmailTypo}
SignupPasswords == {PasswordBang, PasswordAngle, PasswordP}

\* a press of Sign Up after the four texts were typed; the email field's
\* onChangeText keeps text.trim().toLowerCase(), the button is disabled while
\* isLoading
PressSignUp(nameText, emailText, passwordText, confirmText) ==
    /\ ~isLoading
    /\ user = <<>>
    /\ journey.stage = "none"
    /\ handleSignup(nameText, ToLowerCase(Trim(emailText)), passwordText, confirmText)
    /\ journey' = IF SignupValidateForm(nameText, ToLowerCase(Trim(emailText)),
                                        passwordText, confirmText)
                  THEN [email |-> emailText, password |-> passwordText,
                        name |-> nameText, stage |-> "submitted"]
                  ELSE journey

----------------------------------------------------------------------------
(* Process start *)

\* what AsyncStorage may hold when the process starts: nothing, or what an
\* earlier run of the program left there
StoredCredentials ==
    {[email |-> e, password |-> p, name |-> n] :
        e \in StoreEmails, p \in StorePasswords, n \in StoreNames}

InitialStorage ==
    {[k \in Keys |-> <<>>]} \cup
    {[k \in Keys |-> IF k = "credentials" THEN <<Stringify(r, CredentialKeys)>> ELSE <<>>] :
        r \in StoredCredentials}

\* no card field was typed into
NothingTyped == [field |-> "none", text |-> <<>>]

\* the provider and the login screen as mounted: useState initial values, and
\* the mount effect has called loadUser
Mounted ==
    /\ user = <<>>
    /\ isLoading = TRUE
    /\ calls = {LoadUserCall}
    /\ attemptCount = 0
    /\ isBlocked = FALSE
    /\ blockTimeRemaining = 0
    /\ failStreak = 0

\* ProductDetail before its fetch resolves, no PaymentModal mounted
ProductScreenMounted ==
    /\ product = <<>>
    /\ showPaymentModal = FALSE
    /\ currentStep = "details"
    /\ quantity = 1
    /\ paymentMethod = "card"
    /\ isProcessing = FALSE
    /\ formData = [f \in {"fullName", "email", "phone", "address", "city", "zipCode",
                          "cardNumber", "expiryDate", "cvv", "cardName"} |-> <<>>]
    /\ instance = 0
    /\ timers = {}
    /\ now = 0
    /\ renderedAt = 0
    /\ path = <<>>
    /\ processingAt = 0
    /\ successAt = 0
    /\ typed = NothingTyped

\* Home as mounted: useState initial values, nothing selected
HomeMounted ==
    /\ selectedCategorySlug = ""
    /\ products = {}
    /\ showProducts = FALSE
    /\ isLoadingProducts = FALSE
    /\ fetches = {}
    /\ applyQueue = <<>>
    /\ selections = <<>>
    /\ applied = <<>>

NoJourney == [email |-> <<>>, password |-> <<>>, name |-> <<>>, stage |-> "none"]

Unobserved ==
    /\ journey = NoJourney
    /\ sinceLock = 0
    /\ lateTicks = 0

Init ==
    /\ storage \in InitialStorage
    /\ Mounted
    /\ result = Quiet("start")
    /\ ProductScreenMounted
    /\ HomeMounted
    /\ Unobserved

\* the process is killed and started again: memory is lost, AsyncStorage is kept
Restart ==
    /\ storage' = storage
    /\ user' = <<>>
    /\ isLoading' = TRUE
    /\ calls' = {LoadUserCall}
    /\ attemptCount' = 0
    /\ isBlocked' = FALSE
    /\ blockTimeRemaining' = 0
    /\ failStreak' = 0
    /\ result' = [Quiet("restart") EXCEPT !.userWas = user]

----------------------------------------------------------------------------
(* Specifications *)

LoadUser == \E c \in calls, io \in BOOLEAN : LoadUserSettle(c, io)

\* at most MaxCalls store operations are in flight
Login ==
    \E e \in StoreEmails, p \in StorePasswords :
        /\ Cardinality(calls) < MaxCalls
        /\ LoginInvoke("direct", e, p, 0)
        /\ result' = Quiet("invoke")
        /\ UNCHANGED limiterVars

LoginDone == \E c \in calls, io \in BOOLEAN : LoginSettle(c, io)

Signup ==
    \E e \in StoreEmails, p \in StorePasswords, n \in StoreNames :
        Cardinality(calls) < MaxCalls /\ SignupInvoke(e, p, n)

SignupChecked == \E c \in calls, io \in BOOLEAN : SignupCheck(c, io)

SignupWritten == \E c \in calls, ioWrite \in BOOLEAN, ioRead \in BOOLEAN :
                    SignupWrite(c, ioWrite, ioRead)

Logout == Cardinality(calls) < MaxCalls /\ LogoutInvoke

LogoutDone == \E c \in calls, io \in BOOLEAN : LogoutSettle(c, io)

Press == \E e \in TypedEmails, p \in TypedPasswords : PressSignIn(e, p)

\* the store under any caller
StoreNext ==
    \/ LoadUser /\ UNCHANGED besideAuth
    \/ Login /\ UNCHANGED besideAuth
    \/ LoginDone /\ UNCHANGED besideAuth
    \/ Signup /\ UNCHANGED besideAuth
    \/ SignupChecked /\ UNCHANGED besideAuth
    \/ SignupWritten /\ UNCHANGED besideAuth
    \/ Logout /\ UNCHANGED besideAuth
    \/ LogoutDone /\ UNCHANGED besideAuth
    \/ Restart /\ UNCHANGED besideAuth

StoreSpec == Init /\ [][StoreNext]_vars

\* the store started on a device whose AsyncStorage already holds something
\* under the two keys: what an earlier run or an earlier build of the program
\* wrote, or a text that is not JSON
DeviceUsers == {[id |-> <<"1">>, email |-> e, name |-> NameAnn] : e \in StoreEmails}

DeviceCredentials ==
    {<<>>, <<NotJson>>} \cup
    {<<Stringify(r, CredentialKeys)>> : r \in {x \in StoredCredentials : x.name = NameAnn}}

DeviceMirrors ==
    {<<>>, <<NotJson>>} \cup {<<Stringify(u, UserKeys)>> : u \in DeviceUsers}

DeviceStorage ==
    {[k \in Keys |-> IF k = "credentials" THEN cr ELSE mi] :
        cr \in DeviceCredentials, mi \in DeviceMirrors}

DeviceInit ==
    /\ storage \in DeviceStorage
    /\ Mounted
    /\ result = Quiet("start")
    /\ ProductScreenMounted
    /\ HomeMounted
    /\ Unobserved

DeviceSpec == DeviceInit /\ [][StoreNext]_vars

\* store operations that overlap: up to MaxOverlap in flight
OverlapLogin ==
    \E p \in StorePasswords :
        /\ Cardinality(calls) < MaxOverlap
        /\ LoginInvoke("direct", EmailLower, p, 0)
        /\ result' = Quiet("invoke")
        /\ UNCHANGED limiterVars

OverlapSignup ==
    /\ Cardinality(calls) < MaxOverlap
    /\ SignupInvoke(EmailLower, PasswordP, NameAnn)

OverlapNext ==
    \/ LoadUser /\ UNCHANGED besideAuth
    \/ OverlapLogin /\ UNCHANGED besideAuth
    \/ LoginDone /\ UNCHANGED besideAuth
    \/ OverlapSignup /\ UNCHANGED besideAuth
    \/ SignupChecked /\ UNCHANGED besideAuth
    \/ SignupWritten /\ UNCHANGED besideAuth

OverlapSpec == Init /\ [][OverlapNext]_vars

\* the login screen over the store
LoginNext ==
    \/ LoadUser /\ UNCHANGED besideAuth
    \/ Press /\ UNCHANGED besideAuth
    \/ LoginDone /\ UNCHANGED besideAuth
    \/ Tick /\ UNCHANGED besideAuth

LoginSpec == Init /\ [][LoginNext]_vars

\* the interval of the countdown effect keeps firing while it is set
LoginLiveSpec == LoginSpec /\ WF_vars(Tick /\ UNCHANGED besideAuth)

\* the login screen with a clock: the callback of setInterval(..., 1000) runs
\* when at least 1000 ms have passed, and later when the timer is delayed
\* (at most MaxLate times here)
ClockTick ==
    \E d \in {TICK_MS, 2 * TICK_MS} :
        /\ d > TICK_MS => lateTicks < MaxLate
        /\ Tick
        /\ sinceLock' = sinceLock + d
        /\ lateTicks' = IF d > TICK_MS THEN lateTicks + 1 ELSE lateTicks
        /\ UNCHANGED <<checkoutVars, catalogVars, journey>>

ClockLoginDone ==
    /\ LoginDone
    /\ sinceLock' = IF isBlocked' /\ ~isBlocked THEN 0 ELSE sinceLock
    /\ UNCHANGED <<checkoutVars, catalogVars, journey, lateTicks>>

ClockNext ==
    \/ LoadUser /\ UNCHANGED besideAuth
    \/ Press /\ UNCHANGED besideAuth
    \/ ClockLoginDone
    \/ ClockTick

ClockSpec == Init /\ [][ClockNext]_vars

----------------------------------------------------------------------------
(* Properties of the store and of the login screen *)

SomeStored(item) == \E r \in StoredCredentials : item = <<Stringify(r, CredentialKeys)>>
TheStored(item) == CHOOSE r \in StoredCredentials : item = <<Stringify(r, CredentialKeys)>>

\* the part of these e-mail addresses before the '@'
LocalPartOf(email) == IF email = EmailLower THEN <<"a","b">> ELSE <<"A","b">>

LoginSettled == result.op = "login" /\ result.io

\* C1: when a login settles (its read of the credentials key having succeeded):
\* with a stored record {e,p,n} and arguments (e,p) it returns true and the
\* Session User is {id "1", email e, name n or, n being empty, the part of e
\* before '@'}; with another password or e-mail it returns false; with no
\* stored record it returns false.
LoginCorrect ==
    LoginSettled =>
        IF SomeStored(result.stored)
        THEN LET r == TheStored(result.stored)
             IN  IF r.email = result.email /\ r.password = result.password
                 THEN /\ result.ret
                      /\ user = <<[id |-> <<"1">>, email |-> r.email,
                                   name |-> IF r.name = <<>>
                                            THEN LocalPartOf(r.email) ELSE r.name]>>
                 ELSE ~result.ret
        ELSE result.stored = <<>> /\ ~result.ret

\* a login returned true against a record whose name is empty
LoginCorrectWitness ==
    /\ LoginSettled /\ result.ret
    /\ SomeStored(result.stored) /\ TheStored(result.stored).name = <<>>
    /\ user # <<>> /\ user[1].name = LocalPartOf(result.email)

SignupSettled == result.op = "signup" /\ result.caller = "direct"

\* C2: a signup whose e-mail equals the e-mail of the stored Credential Record
\* returns false and leaves the stored record unchanged.
SignupDuplicateRejected ==
    (/\ SignupSettled /\ result.io
     /\ SomeStored(result.stored)
     /\ TheStored(result.stored).email = result.email)
        => (~result.ret /\ storage["credentials"] = result.stored)

ScreenLoginFailed == result.op = "login" /\ result.caller = "screen" /\ ~result.ret

\* C3: counting the failed logins of the screen since the last success or
\* unlock, the limiter is locked exactly when 5 have happened: it is open after
\* 1 to 4, the step that handles the 5th sets the lock, and that step sets
\* the remaining lockout to 15 minutes (900000 ms).
LockoutThreshold ==
    /\ failStreak \in 0..5
    /\ isBlocked <=> failStreak = 5
    /\ (ScreenLoginFailed /\ failStreak = 5) =>
            (~result.blockedWas /\ isBlocked /\ blockTimeRemaining = 900000)
    /\ (ScreenLoginFailed /\ failStreak < 5) => ~isBlocked

\* the 5th failure has just locked the limiter
LockoutThresholdWitness ==
    ScreenLoginFailed /\ failStreak = 5 /\ isBlocked /\ result.countWas = 4

Submission ==
    result.caller = "screen" /\ result.op \in {"disabled", "locked", "invalid", "submit"}

\* C4: a login submission made while the limiter is locked does not call the
\* store's login and leaves the attempt count and the Session User unchanged,
\* whatever e-mail and password are submitted.
LockedRejects ==
    (Submission /\ result.blockedWas) =>
        /\ result.op # "submit"
        /\ \A c \in calls : c.op # "login"
        /\ attemptCount = result.countWas
        /\ user = result.userWas
        /\ isBlocked

\* the stored e-mail and password were submitted while locked
LockedRejectsWitness ==
    /\ Submission /\ result.blockedWas
    /\ SomeStored(result.stored)
    /\ TheStored(result.stored).email = result.email
    /\ TheStored(result.stored).password = result.password

\* C5: a locked limiter becomes open again, the step that opens it is a tick of
\* the countdown (no user action), and that step leaves the attempt count 0,
\* the remaining time 0 and the Sign In button governed by isLoading alone.
LockExpires ==
    /\ isBlocked ~> ~isBlocked
    /\ [][(isBlocked /\ ~isBlocked') =>
            (/\ result'.op = "tick"
             /\ attemptCount' = 0
             /\ blockTimeRemaining' = 0
             /\ failStreak' = 0)]_vars

\* the countdown has just opened the limiter
LockExpiresWitness ==
    result.op = "tick" /\ ~isBlocked /\ attemptCount = 0 /\ blockTimeRemaining = 0

SessionCreated == result.op \in {"login", "signup"} /\ result.ret

\* C10: after a login or signup that returned true, the 'user' key of the
\* storage holds the Session User, and a loadUser that reads the storage
\* after a restart gives the Session User the process had before the restart.
SessionPersisted ==
    /\ SessionCreated => storage["user"] = <<Stringify(user[1], UserKeys)>>
    /\ (result.op = "restart" /\ result.userWas # <<>>) =>
            storage["user"] = <<Stringify(result.userWas[1], UserKeys)>>

ScreenLoginSucceeded == result.op = "login" /\ result.caller = "screen" /\ result.ret

\* C20: the step in which a login of the screen succeeds leaves the attempt
\* count 0 whatever it was (0 to 4) and the limiter open; the attempt count
\* is always the number of failed logins since the last success or unlock,
\* so the limiter locks again only after 5 further failures in a row.
SuccessResets ==
    /\ ScreenLoginSucceeded =>
            (result.countWas \in 0..4 /\ attemptCount = 0 /\ ~isBlocked)
    /\ attemptCount = failStreak
    /\ isBlocked => failStreak = 5

\* a login succeeded after four failures
SuccessResetsWitness ==
    ScreenLoginSucceeded /\ result.countWas = 4 /\ attemptCount = 0

\* the keys of the object a JSON text holds
JsonKeys(text) == {text[i][1] : i \in 1..Len(text)}

\* C21: in every state the Session User in memory has exactly the fields id,
\* email and name, with id "1"; a text under the 'user' key has no other keys;
\* and the Credential Record, when present, is under 'credentials' and is the
\* only place with a password field.
SessionWithoutPassword ==
    /\ user # <<>> =>
            (DOMAIN user[1] = {"id", "email", "name"} /\ user[1].id = <<"1">>)
    /\ storage["user"] # <<>> => JsonKeys(storage["user"][1]) \subseteq {"id", "email", "name"}
    /\ storage["credentials"] # <<>> => "password" \in JsonKeys(storage["credentials"][1])

\* a signup has stored a password and created a Session User
SessionWithoutPasswordWitness ==
    /\ result.op = "signup" /\ result.ret
    /\ user # <<>> /\ user[1].email = result.email
    /\ JsonGet(storage["credentials"][1], "password") = result.password

\* C22: the Credential Record under 'credentials' changes only in a step in
\* which a signup resolves with true; every other step (login, logout,
\* loadUser, a signup that resolves with false) leaves it as it was.
RecordChangedOnlyBySignup ==
    [][storage'["credentials"] # storage["credentials"]
            => (result'.op = "signup" /\ result'.ret)]_vars

LoginsInFlight == {c \in calls : c.op = "login"}

\* C24: a login of the screen that returns false leaves the attempt count one
\* above what it was, and the attempt count is the number of failed logins
\* since the last success or unlock (at most 5). Two logins of the screen are
\* never in flight together: a press while one is in flight is refused by the
\* disabled button and changes nothing.
FailureCountsOnce ==
    /\ ScreenLoginFailed => attemptCount = result.countWas + 1
    /\ attemptCount = failStreak /\ failStreak <= 5
    /\ Cardinality(LoginsInFlight) <= 1
    /\ (result.op = "disabled" /\ LoginsInFlight # {}) =>
            (attemptCount = result.countWas /\ user = result.userWas)

\* Sign In was pressed a second time while a login, following an earlier
\* failure, was in flight
FailureCountsOnceWitness ==
    /\ result.op = "disabled" /\ ~result.blockedWas
    /\ LoginsInFlight # {}
    /\ attemptCount = 1

\* C23: when the countdown is re-evaluated (an interval callback has run) and
\* 15 minutes of clock time have passed since the limiter was locked, the
\* limiter is open, however many callbacks ran in between.
WallClockUnlock ==
    (result.op = "tick" /\ sinceLock >= 15 * 60 * 1000) => ~isBlocked

LogoutSettled == result.op = "logout"

LoadUserFailed ==
    result.op = "loadUser" /\ (~result.io \/ result.mirror = <<NotJson>>)

\* C12: when loadUser's read of the 'user' key fails, or the key holds a text
\* that is not JSON, loadUser still completes: isLoading is false and the
\* Session User is what it was, which is none when loadUser is the first store
\* operation to complete after the start (always so with one operation in
\* flight at a time).
LoadUserFailsOpen ==
    LoadUserFailed =>
        /\ ~isLoading
        /\ user = result.userWas
        /\ \A c \in calls : c.op # "loadUser"
        /\ MaxCalls = 1 => user = <<>>

\* loadUser has read a text that is not JSON
LoadUserFailsOpenWitness ==
    /\ result.op = "loadUser" /\ result.io /\ result.mirror = <<NotJson>>
    /\ user = <<>> /\ ~isLoading

\* the ways a login or signup that has resolved is said to have failed
FailureCase ==
    \/ ~result.io
    \/ /\ result.op = "login"
       /\ SomeStored(result.stored)
       /\ TheStored(result.stored).password # result.password
    \/ result.op = "login" /\ result.stored = <<NotJson>>
    \/ result.op = "signup" /\ result.mirror = <<NotJson>>
    \/ /\ result.op = "signup"
       /\ SomeStored(result.stored)
       /\ TheStored(result.stored).email = result.email

\* C13: a login or signup that resolves after a wrong password, a duplicate
\* e-mail, a storage error or a stored text that is not JSON resolves with
\* false and leaves the Session User unchanged.
FailuresResolveFalse ==
    (result.op \in {"login", "signup"} /\ FailureCase) =>
        (~result.ret /\ user = result.userWas)

\* C14: isLoading is true while a login or signup is in flight, and false when
\* no store operation is in flight.
LoadingCoversCalls ==
    /\ (\E c \in calls : c.op \in {"login", "signup"}) => isLoading
    /\ calls = {} => ~isLoading

----------------------------------------------------------------------------
(* Checkout: ProductDetail and the PaymentModal it mounts *)

PROCESSING_MS == 2500
ClockStep == PROCESSING_MS \div 2

ShippingFields == {"fullName", "email", "phone", "address", "city", "zipCode"}
CardFields == {"cardNumber", "expiryDate", "cvv", "cardName"}
PaymentMethods == {"card", "upi", "wallet"}

\* text.replace(/\D/g, '')
DigitsOf(text) == RemoveChars(text, Range(text) \ Digit)

\* cleaned.replace(/(\d{4})(?=\d)/g, '$1 ')
RECURSIVE GroupsOfFour(_)
GroupsOfFour(digits) ==
    IF Len(digits) <= 4 THEN digits
    ELSE SubSeq(digits, 1, 4) \o <<" ">> \o GroupsOfFour(SubSeq(digits, 5, Len(digits)))

formatCardNumber(text) == GroupsOfFour(DigitsOf(text))

\* cleaned.substring(from, to), both counted from 0
Substring(t, from, to) ==
    SubSeq(t, from + 1, IF to <= Len(t) THEN to ELSE Len(t))

\* mutant: every digit after the second is kept
formatExpiryDate_allDigits(text) ==
    LET cleaned == DigitsOf(text)
    IN  IF Len(cleaned) >= 2
        THEN Substring(cleaned, 0, 2) \o <<"/">> \o Substring(cleaned, 2, Len(cleaned))
        ELSE cleaned

\* mutant: the '/' is added once a third digit is there
formatExpiryDate_slashWithThird(text) ==
    LET cleaned == DigitsOf(text)
    IN  IF Len(cleaned) > 2
        THEN Substring(cleaned, 0, 2) \o <<"/">> \o Substring(cleaned, 2, 4)
        ELSE cleaned

formatExpiryDate(text) ==
    LET cleaned == DigitsOf(text)
    IN  IF Len(cleaned) >= 2
        THEN Substring(cleaned, 0, 2) \o <<"/">> \o Substring(cleaned, 2, 4)
        ELSE cleaned

\* JavaScript numbers, with the two values arithmetic on a missing prop meets
Number(n) == [kind |-> "number", value |-> n]
NaN == [kind |-> "NaN", value |-> 0]
Undefined == [kind |-> "undefined", value |-> 0]

\* a * b
Times(a, b) ==
    IF a.kind = "number" /\ b.kind = "number" THEN Number(a.value * b.value) ELSE NaN

\* ProductDetail: product.price - (product.price * product.discountPercentage / 100),
\* for prices whose hundredth part is whole
discountedPrice ==
    product[1].price - (product[1].price * product[1].discountPercentage) \div 100

\* the props <PaymentModal ... /> is rendered with
PaymentModalProps ==
    [visible |-> showPaymentModal, product |-> product[1], discountedPrice |-> Undefined]

\* PaymentModal: discountedPrice * quantity
totalAmount == Times(PaymentModalProps.discountedPrice, Number(quantity))

\* Date.now() when the product screen was mounted, as millions and the rest
BootTime == [high |-> 1793491, low |-> 998000]

\* Date.now() at clock t
DateNow(t) ==
    [high |-> BootTime.high + (BootTime.low + t) \div 1000000,
     low |-> (BootTime.low + t) % 1000000]

DigitSeq == <<"0","1","2","3","4","5","6","7","8","9">>

\* n.toString() for n >= 0
RECURSIVE ToDigits(_)
ToDigits(n) ==
    IF n < 10 THEN <<DigitSeq[n + 1]>> ELSE ToDigits(n \div 10) \o <<DigitSeq[(n % 10) + 1]>>

RECURSIVE PadStart(_, _)
PadStart(s, n) == IF Len(s) >= n THEN s ELSE PadStart(<<"0">> \o s, n)

\* ts.toString() of the number high * 10^6 + low, high > 0
NumberToString(ts) == ToDigits(ts.high) \o PadStart(ToDigits(ts.low), 6)

\* s.slice(-k)
SliceLast(s, k) == IF Len(s) <= k THEN s ELSE SubSeq(s, Len(s) - k + 1, Len(s))

\* the text after "Order ID: #", computed by each render of the success step
OrderId == <<"O","R","D">> \o SliceLast(NumberToString(DateNow(renderedAt)), 6)

\* mutant: the PaymentModal renders again as time passes
Advance_rerenders ==
    /\ now < MaxAdvances * ClockStep \/ \E t \in timers : now < t.due
    /\ now' = now + ClockStep
    /\ renderedAt' = IF showPaymentModal THEN now' ELSE renderedAt
    /\ UNCHANGED <<product, showPaymentModal, modalVars, instance, timers, historyVars>>

\* mutant: the form is not emptied
resetAndClose_keepsForm ==
    /\ currentStep' = "details"
    /\ quantity' = 1
    /\ paymentMethod' = "card"
    /\ showPaymentModal' = FALSE
    /\ isProcessing' = FALSE
    /\ path' = <<>>
    /\ processingAt' = 0
    /\ successAt' = 0
    /\ typed' = NothingTyped
    /\ UNCHANGED <<product, instance, timers, now, renderedAt, formData>>

\* mutant: the ZIP code is not required
isDetailsValid_withoutZip ==
    \A f \in ShippingFields \ {"zipCode"} : formData[f] # <<>>

isDetailsValid == \A f \in ShippingFields : formData[f] # <<>>

\* mutant: the card fields are not required
isPaymentValid_anyCard == TRUE

isPaymentValid ==
    IF paymentMethod = "card"
    THEN \A f \in CardFields : formData[f] # <<>>
    ELSE TRUE

\* texts the fields' onChangeText can receive (within each field's maxLength)
ShippingTexts == {<<>>, <<"x">>}
SixteenDigits == <<"4","1","1","1","1","1","1","1","1","1","1","1","1","1","1","1">>
CardNumberTexts ==
    {<<>>, <<"a">>, <<"4","1","1","1","4">>, <<"4"," ","1","-","1","a">>,
     SixteenDigits,
     formatCardNumber(SixteenDigits),
     SixteenDigits \o <<"1">>}
ExpiryTexts ==
    {<<>>, <<"1">>, <<"1","2">>, <<"1","2","2","5">>, <<"1","2","2","5","6">>,
     <<"1","/","2","a","3">>}
CvvTexts == {<<>>, <<"1","2","3">>}
CardNameTexts == {<<>>, <<"x">>}

Products ==
    {[price |-> 100, discountPercentage |-> 10, stock |-> s] : s \in {0, 5}}

BlankForm == [f \in ShippingFields \cup CardFields |-> <<>>]

\* the fetch of the product screen resolves
ProductFetched ==
    /\ product = <<>>
    /\ \E p \in Products : product' = <<p>>
    /\ UNCHANGED <<showPaymentModal, modalVars, instance, timers, now, renderedAt,
                   historyVars>>

\* Buy Now is pressed: handleBuyNow, and the render mounts a PaymentModal
HandleBuyNow ==
    /\ ~showPaymentModal
    /\ product # <<>> /\ product[1].stock # 0
    /\ instance < MaxMounts
    /\ showPaymentModal' = TRUE
    /\ instance' = instance + 1
    /\ currentStep' = "details"
    /\ quantity' = 1
    /\ paymentMethod' = "card"
    /\ isProcessing' = FALSE
    /\ formData' = BlankForm
    /\ renderedAt' = now
    /\ path' = <<"details">>
    /\ processingAt' = 0
    /\ successAt' = 0
    /\ typed' = NothingTyped
    /\ UNCHANGED <<product, timers, now>>

\* a shipping field's onChangeText
EditShipping ==
    /\ showPaymentModal /\ currentStep = "details"
    /\ \E f \in ShippingFields, text \in ShippingTexts :
            formData' = [formData EXCEPT ![f] = text]
    /\ renderedAt' = now
    /\ UNCHANGED <<product, showPaymentModal, currentStep, quantity, paymentMethod,
                   isProcessing, instance, timers, now, historyVars>>

\* "Continue to Payment", disabled unless isDetailsValid()
ContinueToPayment ==
    /\ showPaymentModal /\ currentStep = "details"
    /\ isDetailsValid
    /\ currentStep' = "payment"
    /\ path' = Append(path, "payment")
    /\ renderedAt' = now
    /\ UNCHANGED <<product, showPaymentModal, quantity, paymentMethod, isProcessing,
                   formData, instance, timers, now, processingAt, successAt, typed>>

\* one of the three payment options is pressed
SelectPaymentMethod ==
    /\ showPaymentModal /\ currentStep = "payment"
    /\ \E m \in PaymentMethods : paymentMethod' = m
    /\ renderedAt' = now
    /\ UNCHANGED <<product, showPaymentModal, currentStep, quantity, isProcessing,
                   formData, instance, timers, now, historyVars>>

\* a card field's onChangeText; the fields are rendered for "card" only
EditCard ==
    /\ showPaymentModal /\ currentStep = "payment" /\ paymentMethod = "card"
    /\ \/ \E t \in CardNumberTexts :
            /\ formData' = [formData EXCEPT !["cardNumber"] = formatCardNumber(t)]
            /\ typed' = [field |-> "cardNumber", text |-> t]
       \/ \E t \in ExpiryTexts :
            /\ formData' = [formData EXCEPT !["expiryDate"] = formatExpiryDate(t)]
            /\ typed' = [field |-> "expiryDate", text |-> t]
       \/ \E t \in CvvTexts :
            /\ formData' = [formData EXCEPT !["cvv"] = t]
            /\ typed' = [field |-> "cvv", text |-> t]
       \/ \E t \in CardNameTexts :
            /\ formData' = [formData EXCEPT !["cardName"] = t]
            /\ typed' = [field |-> "cardName", text |-> t]
    /\ renderedAt' = now
    /\ UNCHANGED <<product, showPaymentModal, currentStep, quantity, paymentMethod,
                   isProcessing, instance, timers, now, path, processingAt, successAt>>

\* backspace in the expiry field: onChangeText gets the value shown without
\* its last character
DeleteExpiryChar ==
    /\ showPaymentModal /\ currentStep = "payment" /\ paymentMethod = "card"
    /\ formData["expiryDate"] # <<>>
    /\ LET t == SubSeq(formData["expiryDate"], 1, Len(formData["expiryDate"]) - 1)
       IN  /\ formData' = [formData EXCEPT !["expiryDate"] = formatExpiryDate(t)]
           /\ typed' = [field |-> "expiryDateBackspace", text |-> t]
    /\ renderedAt' = now
    /\ UNCHANGED <<product, showPaymentModal, currentStep, quantity, paymentMethod,
                   isProcessing, instance, timers, now, path, processingAt, successAt>>

\* the Pay button, disabled unless isPaymentValid(): handlePayment
HandlePayment ==
    /\ showPaymentModal /\ currentStep = "payment"
    /\ isPaymentValid
    /\ isProcessing' = TRUE
    /\ currentStep' = "processing"
    /\ timers' = timers \cup {[inst |-> instance, due |-> now + PROCESSING_MS]}
    /\ path' = Append(path, "processing")
    /\ processingAt' = now
    /\ renderedAt' = now
    /\ UNCHANGED <<product, showPaymentModal, quantity, paymentMethod, formData,
                   instance, now, successAt, typed>>

\* mutant: the callback acts on whichever PaymentModal is shown, as it would
\* were the modal kept mounted while hidden
PaymentTimerFires_anyInstance(t) ==
    /\ t \in timers /\ now >= t.due
    /\ timers' = timers \ {t}
    /\ IF showPaymentModal
       THEN /\ isProcessing' = FALSE
            /\ currentStep' = "success"
            /\ path' = Append(path, "success")
            /\ successAt' = now
            /\ renderedAt' = now
       ELSE UNCHANGED <<isProcessing, currentStep, path, successAt, renderedAt>>
    /\ UNCHANGED <<product, showPaymentModal, quantity, paymentMethod, formData,
                   instance, now, processingAt, typed>>

\* the setTimeout callback of handlePayment runs; the state setters of an
\* instance that was unmounted do nothing
PaymentTimerFires(t) ==
    /\ t \in timers /\ now >= t.due
    /\ timers' = timers \ {t}
    /\ IF showPaymentModal /\ t.inst = instance
       THEN /\ isProcessing' = FALSE
            /\ currentStep' = "success"
            /\ path' = Append(path, "success")
            /\ successAt' = now
            /\ renderedAt' = now
       ELSE UNCHANGED <<isProcessing, currentStep, path, successAt, renderedAt>>
    /\ UNCHANGED <<product, showPaymentModal, quantity, paymentMethod, formData,
                   instance, now, processingAt, typed>>

\* resetAndClose, then closePaymentModal unmounts the PaymentModal
resetAndClose ==
    /\ currentStep' = "details"
    /\ quantity' = 1
    /\ paymentMethod' = "card"
    /\ formData' = BlankForm
    /\ showPaymentModal' = FALSE
    /\ isProcessing' = FALSE
    /\ path' = <<>>
    /\ processingAt' = 0
    /\ successAt' = 0
    /\ typed' = NothingTyped
    /\ UNCHANGED <<product, instance, timers, now, renderedAt>>

\* the header's close button, or onRequestClose
CloseModal == showPaymentModal /\ resetAndClose

\* "Continue Shopping"
ContinueShopping == showPaymentModal /\ currentStep = "success" /\ resetAndClose

\* time passes
Advance ==
    /\ now < MaxAdvances * ClockStep \/ \E t \in timers : now < t.due
    /\ now' = now + ClockStep
    /\ UNCHANGED <<product, showPaymentModal, modalVars, instance, timers, renderedAt,
                   historyVars>>

TimerFires == \E t \in timers : PaymentTimerFires(t)

CheckoutNext ==
    \/ ProductFetched /\ UNCHANGED besideCheckout
    \/ HandleBuyNow /\ UNCHANGED besideCheckout
    \/ EditShipping /\ UNCHANGED besideCheckout
    \/ ContinueToPayment /\ UNCHANGED besideCheckout
    \/ SelectPaymentMethod /\ UNCHANGED besideCheckout
    \/ EditCard /\ UNCHANGED besideCheckout
    \/ DeleteExpiryChar /\ UNCHANGED besideCheckout
    \/ HandlePayment /\ UNCHANGED besideCheckout
    \/ TimerFires /\ UNCHANGED besideCheckout
    \/ CloseModal /\ UNCHANGED besideCheckout
    \/ ContinueShopping /\ UNCHANGED besideCheckout
    \/ Advance /\ UNCHANGED besideCheckout

CheckoutInit ==
    /\ storage = [k \in Keys |-> <<>>]
    /\ Mounted
    /\ result = Quiet("start")
    /\ ProductScreenMounted
    /\ HomeMounted
    /\ Unobserved

CheckoutSpec == CheckoutInit /\ [][CheckoutNext]_vars

\* time passes, and a setTimeout callback that is due runs
CheckoutLiveSpec ==
    /\ CheckoutSpec
    /\ WF_vars(Advance /\ UNCHANGED besideCheckout)
    /\ WF_vars(TimerFires /\ UNCHANGED besideCheckout)

----------------------------------------------------------------------------
(* Sign up, log out, log in *)

\* signup settled: Home replaces the signup screen when it resolved with true
SignupOutcome ==
    journey' = IF result'.op = "signup"
               THEN IF result'.ret THEN [journey EXCEPT !.stage = "signedUp"]
                    ELSE NoJourney
               ELSE journey

\* Home's Logout button, confirmed in the alert
PressLogout ==
    /\ journey.stage = "signedUp"
    /\ user # <<>>
    /\ LogoutInvoke
    /\ UNCHANGED journey

\* `await authLogout()' is over: router.replace("/(auth)")
LoggedOut ==
    /\ \E c \in calls, io \in BOOLEAN : LogoutSettle(c, io)
    /\ journey' = [journey EXCEPT !.stage = "loggedOut"]

\* the texts typed at sign-up are typed into the login screen, and Sign In is
\* pressed
PressSignInAgain ==
    /\ journey.stage = "loggedOut"
    /\ PressSignIn(journey.email, journey.password)
    /\ UNCHANGED journey

besideJourney == <<checkoutVars, catalogVars, sinceLock, lateTicks>>

\* sign up on the signup screen, log out on Home, log in on the login screen
JourneyNext ==
    \/ LoadUser /\ UNCHANGED besideAuth
    \/ (\E n \in SignupNames, e \in SignupEmails,
           p \in SignupPasswords, cp \in SignupPasswords : PressSignUp(n, e, p, cp))
            /\ UNCHANGED besideJourney
    \/ SignupChecked /\ SignupOutcome /\ UNCHANGED besideJourney
    \/ SignupWritten /\ SignupOutcome /\ UNCHANGED besideJourney
    \/ PressLogout /\ UNCHANGED besideJourney
    \/ LoggedOut /\ UNCHANGED besideJourney
    \/ PressSignInAgain /\ UNCHANGED besideJourney
    \/ LoginDone /\ UNCHANGED besideAuth

JourneySpec == CheckoutInit /\ [][JourneyNext]_vars

\* C27: after a sign-up through the signup screen and a log-out, submitting
\* the texts typed at sign-up on the login screen is not rejected by the login
\* form, and the login it makes succeeds when the storage read succeeds.
SameInputsLogIn ==
    journey.stage = "loggedOut" =>
        /\ result.op # "invalid"
        /\ (result.op = "login" /\ result.caller = "screen" /\ result.io) => result.ret

----------------------------------------------------------------------------
(* Catalog: the Home screen's category picker *)

\* the values of the Picker's items: "Choose a category..." and two categories
Slugs == {"beauty", "laptops"}
PickerValues == {""} \cup Slugs

\* data.products of /products/category/<slug>
CategoryProducts(slug) == {[id |-> i, category |-> slug] : i \in 1..2}

\* the Picker's onValueChange; the Picker is enabled unless isLoading
handleCategoryChange(slug) ==
    /\ ~isLoadingProducts
    /\ Len(selections) < MaxSelections
    /\ IF slug # "" /\ slug # selectedCategorySlug
       THEN /\ showProducts' = FALSE
            /\ fetches' = fetches \cup
                    {[id |-> Len(selections) + 1, slug |-> slug, pc |-> "timer"]}
            /\ selections' = Append(selections, slug)
            /\ UNCHANGED <<selectedCategorySlug, products, isLoadingProducts,
                           applyQueue, applied>>
       ELSE UNCHANGED catalogVars

\* the 200 ms timer of handleCategoryChange fires (timers of equal delay fire
\* in the order they were set): fetchProductsForCategory up to its first await
StartFetch(f) ==
    /\ f \in fetches /\ f.pc = "timer"
    /\ \A g \in fetches : g.pc = "timer" => g.id >= f.id
    /\ isLoadingProducts' = TRUE
    /\ fetches' = (fetches \ {f}) \cup {[f EXCEPT !.pc = "fetch"]}
    /\ UNCHANGED <<selectedCategorySlug, products, showProducts, applyQueue,
                   selections, applied>>

\* fetch and response.json() settle: the 300 ms timer is set, or the catch
\* block runs
FetchSettles(f, ok) ==
    /\ f \in fetches /\ f.pc = "fetch"
    /\ fetches' = fetches \ {f}
    /\ IF ok
       THEN /\ applyQueue' = Append(applyQueue, f.slug)
            /\ UNCHANGED isLoadingProducts
       ELSE /\ isLoadingProducts' = FALSE
            /\ UNCHANGED applyQueue
    /\ UNCHANGED <<selectedCategorySlug, products, showProducts, selections, applied>>

\* mutant: a result is dropped unless its category is the one chosen last
ApplyResult_latestOnly ==
    /\ applyQueue # <<>>
    /\ IF Head(applyQueue) = selections[Len(selections)]
       THEN /\ products' = CategoryProducts(Head(applyQueue))
            /\ selectedCategorySlug' = Head(applyQueue)
            /\ showProducts' = TRUE
       ELSE UNCHANGED <<products, selectedCategorySlug, showProducts>>
    /\ isLoadingProducts' = FALSE
    /\ applyQueue' = Tail(applyQueue)
    /\ applied' = Append(applied, Head(applyQueue))
    /\ UNCHANGED <<fetches, selections>>

\* the 300 ms timer of fetchProductsForCategory fires
ApplyResult ==
    /\ applyQueue # <<>>
    /\ products' = CategoryProducts(Head(applyQueue))
    /\ selectedCategorySlug' = Head(applyQueue)
    /\ showProducts' = TRUE
    /\ isLoadingProducts' = FALSE
    /\ applyQueue' = Tail(applyQueue)
    /\ applied' = Append(applied, Head(applyQueue))
    /\ UNCHANGED <<fetches, selections>>

SelectCategory == \E slug \in PickerValues : handleCategoryChange(slug)
FetchStarts == \E f \in fetches : StartFetch(f)
FetchDone == \E f \in fetches, ok \in BOOLEAN : FetchSettles(f, ok)

CatalogNext ==
    \/ SelectCategory /\ UNCHANGED besideCatalog
    \/ FetchStarts /\ UNCHANGED besideCatalog
    \/ FetchDone /\ UNCHANGED besideCatalog
    \/ ApplyResult /\ UNCHANGED besideCatalog

CatalogSpec == CheckoutInit /\ [][CatalogNext]_vars

\* C26: the products and the selected category shown are those of the fetch
\* result applied last, whatever was chosen since: results are applied in the
\* order they resolve and none is dropped, so with two overlapping fetches the
\* category finally shown is the one that resolved last.
LastResolvedWins ==
    /\ applied # <<>> =>
            /\ selectedCategorySlug = applied[Len(applied)]
            /\ products = CategoryProducts(applied[Len(applied)])
    /\ Len(applied) + Len(applyQueue) + Cardinality(fetches) <= Len(selections)

\* A then B were chosen, B's result was applied before A's, nothing is
\* pending any more, and A is shown
LastResolvedWinsWitness ==
    /\ Len(selections) = 2 /\ selections[1] # selections[2]
    /\ applied = <<selections[2], selections[1]>>
    /\ fetches = {} /\ applyQueue = <<>>
    /\ selectedCategorySlug = selections[1]
    /\ products = CategoryProducts(selections[1])

----------------------------------------------------------------------------
(* Properties of the checkout *)

ShippingFilled == \A f \in ShippingFields : formData[f] # <<>>
CardFilled == \A f \in CardFields : formData[f] # <<>>

\* C6: while the step is 'payment', none of the six shipping fields is empty
\* (the step is entered from 'details' only with all six filled, and they
\* cannot be edited afterwards).
PaymentNeedsShipping ==
    currentStep = "payment" => (showPaymentModal /\ ShippingFilled)

\* 'payment' was reached
PaymentNeedsShippingWitness ==
    currentStep = "payment" /\ path = <<"details", "payment">> /\ ShippingFilled

\* C7: while the step is 'processing' and the method is 'card', none of the
\* four card fields is empty; and at 'payment' with 'upi' or 'wallet' the Pay
\* button is enabled whatever the card fields hold.
ProcessingNeedsCard ==
    /\ (currentStep = "processing" /\ paymentMethod = "card") => CardFilled
    /\ (showPaymentModal /\ currentStep = "payment" /\ paymentMethod # "card")
            => ENABLED HandlePayment

\* 'processing' was entered with 'upi' and every card field empty
ProcessingNeedsCardWitness ==
    /\ currentStep = "processing" /\ paymentMethod = "upi"
    /\ \A f \in CardFields : formData[f] = <<>>

\* C8: whenever the step is 'success', the mounted session went details,
\* payment, processing, success in this order, its six shipping fields are
\* filled, its card fields are filled if it pays by card, and at least
\* 2500 ms have passed since it entered 'processing'; timers of sessions
\* closed earlier do not change this.
SuccessOnlyViaProcessing ==
    currentStep = "success" =>
        /\ showPaymentModal
        /\ path = <<"details", "payment", "processing", "success">>
        /\ ShippingFilled
        /\ paymentMethod = "card" => CardFilled
        /\ now >= processingAt + 2500

\* a session opened after an earlier one was closed during 'processing' has
\* reached 'success' while the earlier session's timer is still pending
SuccessOnlyViaProcessingWitness ==
    /\ currentStep = "success" /\ paymentMethod = "card"
    /\ \E t \in timers : t.inst < instance

\* C9: from 'processing' the only next step is 'success': the session cannot
\* be closed or returned to 'details' or 'payment'.
ProcessingUncancellable ==
    [][currentStep = "processing" => currentStep' \in {"processing", "success"}]_vars

InitialSession ==
    /\ currentStep = "details"
    /\ quantity = 1
    /\ paymentMethod = "card"
    /\ Cardinality(DOMAIN formData) = 10
    /\ \A f \in DOMAIN formData : formData[f] = <<>>

\* C15: every step that closes the checkout (the close button at any step,
\* "Continue Shopping" at 'success') leaves step 'details', quantity 1, method
\* 'card' and the ten form fields empty, and every step that opens a checkout
\* starts it in that same state.
CloseResets ==
    [][/\ (showPaymentModal /\ ~showPaymentModal') => InitialSession'
       /\ (~showPaymentModal /\ showPaymentModal') => InitialSession']_vars

\* a checkout was opened after an earlier one, which had filled forms and had
\* reached 'processing', was closed
CloseResetsWitness ==
    /\ showPaymentModal /\ InitialSession
    /\ instance = 2 /\ \E t \in timers : t.inst = 1

Tenth == <<100000, 10000, 1000, 100, 10, 1>>

\* the six decimal digits of the lowest six places of Date.now() at clock t
LastSixAt(t) ==
    LET n == (BootTime.low + t) % 1000000
    IN  [i \in 1..6 |-> DigitSeq[((n \div Tenth[i]) % 10) + 1]]

\* C16: in every state whose step is 'success' the order identifier shown is
\* "ORD" followed by exactly six digits, the last six digits of Date.now() at
\* the moment the step became 'success'; hence it does not change while the
\* session stays in 'success'.
OrderIdFixed ==
    currentStep = "success" =>
        /\ Len(OrderId) = 9
        /\ SubSeq(OrderId, 1, 3) = <<"O","R","D">>
        /\ \A i \in 4..9 : OrderId[i] \in Digit
        /\ SubSeq(OrderId, 4, 9) = LastSixAt(successAt)

\* time has passed in 'success', and the identifier starts with a zero
OrderIdFixedWitness ==
    /\ currentStep = "success" /\ now > successAt
    /\ OrderId[4] = "0"

IsDigit(c) == c \in Digit
IsNoSpace(c) == c # " "

\* C17: after a text was typed into the card number field, the stored
\* cardNumber without its spaces is the digits of that text in order, its
\* spaces are exactly at every fifth place (after each complete group of four
\* digits that another digit follows), it does not end in a space, and it is
\* at most 19 characters long.
CardNumberFormat ==
    typed.field = "cardNumber" =>
        LET v == formData["cardNumber"]
        IN  /\ SelectSeq(v, IsNoSpace) = SelectSeq(typed.text, IsDigit)
            /\ \A i \in 1..Len(v) : (v[i] = " ") <=> (i % 5 = 0)
            /\ v = <<>> \/ v[Len(v)] # " "
            /\ Len(v) <= 19

\* C18: after a text was typed into the expiry field, the stored expiryDate
\* is the digits of that text if there are fewer than two, and otherwise the
\* first two digits, a '/', and the third and fourth digit when present; it
\* is never longer than 5 characters.
ExpiryFormat ==
    typed.field = "expiryDate" =>
        LET d == SelectSeq(typed.text, IsDigit)
            v == formData["expiryDate"]
        IN  /\ Len(v) <= 5
            /\ IF Len(d) < 2 THEN v = d
               ELSE v = <<d[1], d[2], "/">> \o
                        (IF Len(d) >= 3 THEN <<d[3]>> ELSE <<>>) \o
                        (IF Len(d) >= 4 THEN <<d[4]>> ELSE <<>>)

\* a text of five digits was typed and its fifth digit was dropped
ExpiryFormatWitness ==
    /\ typed.field = "expiryDate"
    /\ typed.text = <<"1","2","2","5","6">>
    /\ formData["expiryDate"] = <<"1","2","/","2","5">>

\* C19: while a checkout opened from the product screen is shown, the total
\* amount is the product screen's discounted price times the quantity.
TotalIsDiscountedTimesQuantity ==
    showPaymentModal => totalAmount = Number(discountedPrice * quantity)

\* C25: a checkout that is in 'processing' eventually is in 'success'.
ProcessingCompletes == (currentStep = "processing") ~> (currentStep = "success")

----------------------------------------------------------------------------
(* The rate limiter's state *)

\* C28: on the login screen isBlocked is true exactly when blockTimeRemaining
\* is above 0, blockTimeRemaining lies between 0 and 15 minutes, and the
\* attempt count lies between 0 and 5.
LimiterInvariant ==
    /\ isBlocked <=> blockTimeRemaining > 0
    /\ blockTimeRemaining >= 0 /\ blockTimeRemaining <= 15 * 60 * 1000
    /\ attemptCount >= 0 /\ attemptCount <= 5

\* the countdown is under way after the fifth failure
LimiterInvariantWitness ==
    /\ result.op = "tick"
    /\ isBlocked
    /\ blockTimeRemaining > 0 /\ blockTimeRemaining < BLOCK_DURATION
    /\ attemptCount = MAX_ATTEMPTS

\* C29: a submission that the login form's validation rejects makes no call
\* to the store's login and leaves attemptCount, isBlocked and
\* blockTimeRemaining as they were.
InvalidSubmissionInert ==
    [][result'.op = "invalid" =>
            UNCHANGED <<calls, isLoading, storage, user, attemptCount, isBlocked,
                        blockTimeRemaining, failStreak>>]_vars

\* a rejected submission after four failed logins: the count is still four
\* and the screen is not locked
InvalidSubmissionInertWitness ==
    /\ result.op = "invalid"
    /\ ~ValidateForm(result.email, result.password)
    /\ result.countWas = MAX_ATTEMPTS - 1
    /\ attemptCount = MAX_ATTEMPTS - 1
    /\ ~isBlocked
    /\ calls = {}

----------------------------------------------------------------------------
(* Deleting in the expiry field *)

\* C30: an edit of the expiry field that deletes the last character of a
\* value holding two or more digits leaves a value holding two or more
\* digits, and deleting the '/' that ends a three-character value gives that
\* value again.
ExpiryKeepsTwoDigits ==
    [][(typed'.field = "expiryDateBackspace"
            /\ Len(DigitsOf(formData["expiryDate"])) >= 2)
        => /\ Len(DigitsOf(formData'["expiryDate"])) >= 2
           /\ (Len(formData["expiryDate"]) = 3
                    => formData'["expiryDate"] = formData["expiryDate"])]_vars

\* the '/' of "12/" was deleted and the field holds "12/"
ExpiryKeepsTwoDigitsWitness ==
    /\ typed.field = "expiryDateBackspace"
    /\ typed.text = <<"1","2">>
    /\ formData["expiryDate"] = <<"1","2","/">>

====
